---- MODULE Spec2Model ----
(***************************************************************************)
(* rawcon: UDP-over-fake-TCP endpoint (raw_other.go).                      *)
(*                                                                         *)
(* One behaviour is the life of one owner of a capture handle: either a    *)
(* dial connection (DialRAW, then the caller-driven reader and writer,     *)
(* the ack pacer and Close) or a listener (ReadFrom demultiplexing to      *)
(* per-peer flows, WriteTo and Close).  Code that runs while no other      *)
(* task of the owner exists (all of DialRAW) is taken in whole steps; code *)
(* that can run beside another task is taken one memory access group at a  *)
(* time, so that the unsynchronised accesses of the source interleave;     *)
(* Close, on either side, is one step.                                     *)
(***************************************************************************)
EXTENDS Integers, Sequences, FiniteSets, TLC

\* ------------------------------------------------------------------ bounds
MaxDialFrames == 3  \* frames captured while DialRAW runs
MaxFrames == 1      \* frames captured by the reads of a dial connection
MaxWrites == 1      \* Write / WriteTo calls of the application
MaxFail == 1          \* injections of DialRAW that fail while the handle is open
MaxListenFrames == 2 \* frames captured by the reads of a listener

\* --------------------------------------------------------------- constants
U16 == 65536
MaxRetry == 5

NIL == "nil"
Peers == {"p1", "p2"}
DialPeer == "p1"
EPH == "eph"
TmplIds == Peers \cup {EPH}

SYN == "SYN"
ACK == "ACK"
PSH == "PSH"
FIN == "FIN"
RST == "RST"

\* A payload is known by its length, its first four bytes and its last four.
CRLF2 == "\r\n\r\n"
NoPayload == [n |-> 0, head |-> "", tail |-> ""]
Data(k) == [n |-> k, head |-> "data", tail |-> "data"]
Http(k) == [n |-> k, head |-> "HTTP", tail |-> CRLF2]
Post(k) == [n |-> k, head |-> "POST", tail |-> CRLF2]

buildHTTPRequest == Post(22)
buildHTTPResponse == Http(25)

\* TCP options of a captured SYN or SYN/ACK: window scale, then MSS = 1400.
PeerOptions == << [kind |-> "WS", data |-> <<6>>], [kind |-> "MSS", data |-> <<5, 120>>] >>

RECURSIVE getMssFromTcpLayer(_)
getMssFromTcpLayer(options) ==
    IF options = <<>> THEN 0
    ELSE IF Head(options).kind # "MSS" \/ Len(Head(options).data) = 0
         THEN getMssFromTcpLayer(Tail(options))
         ELSE Head(options).data[1] * 256 + Head(options).data[2]

\* ------------------------------------------------------------------ uint32
\* A uint32 is kept at its width as <<high 16 bits, low 16 bits>>.
Zero32 == <<0, 0>>
One32 == <<0, 1>>
\* u + k truncated to 32 bits (k a length, below 2^16).
Add32(u, k) == <<(u[1] + ((u[2] + k) \div U16)) % U16, (u[2] + k) % U16>>
\* uint64(u) + uint64(k) does not fit 32 bits.
Carry32(u, k) == u[1] + ((u[2] + k) \div U16) >= U16
Less32(a, b) == a[1] < b[1] \/ (a[1] = b[1] /\ a[2] < b[2])
\* uint64(u) + uint64(k) > uint64(a)
Gt64(u, k, a) == Carry32(u, k) \/ Less32(a, Add32(u, k))

\* ------------------------------------------------------- captured frames
\* The random draws of one template: its first Seq and its first IPv4 Id.
Seeds == {[seq |-> <<0, 7>>, id |-> U16 - 2], [seq |-> <<U16 - 1, U16 - 1>>, id |-> 41]}
PeerSeqs == {Zero32, <<0, 500>>, <<U16 - 1, U16 - 10>>}
PeerPayloads == {Data(0), Data(5), Http(20), Post(20), Post(21)}

Frame(p, fl, s, b) ==
    [src |-> p, flags |-> fl, seq |-> s, pl |-> b,
     options |-> IF SYN \in fl THEN PeerOptions ELSE <<>>]

FramesOf(p) ==
    {Frame(p, fl, s, NoPayload) : fl \in {{SYN}, {SYN, ACK}}, s \in PeerSeqs}
    \cup {Frame(p, fl, One32, NoPayload) : fl \in {{ACK}, {FIN}, {RST}}}
    \cup {Frame(p, {PSH, ACK}, s, b) : s \in PeerSeqs, b \in PeerPayloads}

\* The frames a listener captures from peer p.
ListenSeqs == PeerSeqs \ {Zero32}
ListenPayloads == PeerPayloads \ {Http(20)}
ListenFramesOf(p) ==
    {Frame(p, {SYN}, s, NoPayload) : s \in ListenSeqs}
    \cup {Frame(p, fl, One32, NoPayload) : fl \in {{SYN, ACK}, {ACK}, {FIN}, {RST}}}
    \cup {Frame(p, {PSH, ACK}, s, b) : s \in ListenSeqs, b \in ListenPayloads}

\* ------------------------------------------------------------------ state
VARIABLES
    role,       \* "dial" or "listen": which constructor built the owner
    opts,       \* Raw: [NoHTTP, IgnRST]
    tmpl,       \* the pktLayers send templates, by flow key (EPH: the one-shot one)
    layer,      \* RAWConn.layer: the template the owner currently points at, or NIL
    hseqn,      \* RAWConn.hseqn
    mss,        \* RAWConn.mss
    rtimer,     \* RAWConn.rtimer: "nil", "armed" (it fires at any later moment) or "spent"
    wtimer,     \* RAWConn.wtimer: "nil", or the deadline of the timer ("past", "future")
    dstAddr,    \* ip4.DstIP and tcp.DstPort of a dial connection's template, as a peer
    lock,       \* RAWConn.lock: its holder, or NIL
    handle,     \* pcap handle: "open" or "closed"
    pc,         \* position of each task
    call,       \* the send helper each task is inside, and the helper's locals
    cl,         \* RAWListener.ReadFrom: addrstr of the captured frame it is handling
    retry,      \* DialRAW: retry
    ackn,       \* DialRAW: ackn
    seqn,       \* DialRAW: seqn
    dialErr,    \* DialRAW: err
    packn,      \* ackSender: ackn
    newcons,    \* RAWListener.newcons (keys)
    conns,      \* RAWListener.conns (keys)
    info,       \* the connInfo of each key: [state, rep, hseqn, mss]
    winfo,      \* Write / WriteTo: the payload b, and the key of the info WriteTo found
    mutex,      \* RAWListener.mutex: its holder, or NIL
    rd,         \* result of the last ReadFrom
    wr,         \* result of the last Write / WriteTo
    crashed,    \* a nil dereference panicked
    seed,       \* history: the random seq each template was seeded with
    lastOut,    \* history: last segment emitted from each template
    sentBytes,  \* history: payload bytes emitted in PSH+ACK segments per template
    sent,       \* history: segments emitted, per helper
    hs,         \* history: observer of the dial handshake on the wire
    dupIn,      \* history: the frame RAWConn.ReadFrom took last was PSH+ACK with seq = hseqn
    packOut,    \* history: the segment the ack pacer emitted last
    lastIn,     \* history: the frame a listener captured last, if its peer had a flow
    frames,     \* history: frames captured so far
    writes,     \* history: Write / WriteTo calls so far
    nfail       \* history: injections that failed with the handle open

progVars == <<role, opts, tmpl, layer, hseqn, mss, rtimer, wtimer, dstAddr, lock, handle, pc, call, cl,
              retry, ackn, seqn, dialErr, packn, newcons, conns, info, winfo, mutex,
              rd, wr, crashed>>
histVars == <<seed, lastOut, packOut, sentBytes, sent, hs, dupIn, lastIn, frames, writes, nfail>>
vars == <<progVars, histVars>>

Helpers == {"sendSyn", "sendSynAck", "sendAck", "sendFin", "sendRst", "write"}
Procs == {"dialer", "reader", "writer", "pacer", "closer"}

NoTmpl == [seq |-> Zero32, ack |-> Zero32, id |-> 0, flags |-> {}, pl |-> NoPayload]
NoSeg == [h |-> "none", flags |-> {}, n |-> 0, seq |-> Zero32, ack |-> Zero32, id |-> 0]
NoCall == [h |-> "none", stage |-> "none", b |-> NoPayload, lyr |-> NIL, tcp |-> NIL, err |-> FALSE]
NoInfo == [state |-> "none", rep |-> NoPayload, hseqn |-> Zero32, mss |-> 0]
NoIn == [src |-> NIL, flags |-> {}, n |-> 0, post |-> FALSE, dup |-> FALSE, skipped |-> FALSE]
NoResult == [n |-> 0, addr |-> NIL, err |-> "none", op |-> NIL]

\* ------------------------------------------------------- the send template
\* updateTCP: every control flag (and the padding) is cleared.
updateTCP(t) == [t EXCEPT !.flags = {}]

\* The flags each send helper asserts after updateTCP.
HelperFlags(h) ==
    CASE h = "sendSyn" -> {SYN}
      [] h = "sendSynAck" -> {SYN, ACK}
      [] h = "sendAck" -> {ACK}
      [] h = "sendFin" -> {FIN}
      [] h = "sendRst" -> {RST}
      [] h = "write" -> {PSH, ACK}

\* The helper's own assignments: its flags, and for write the payload.
setFlags(t, h, b) ==
    [t EXCEPT !.flags = @ \cup HelperFlags(h),
              !.pl = IF h = "write" THEN b ELSE @]

\* sendPacket, first half: layer.ip4.Id++ (uint16).
incId(t) == [t EXCEPT !.id = (@ + 1) % U16]

\* sendPacket, second half: what SerializeLayers puts in the buffer.
Serialize(t, h) ==
    [h |-> h, flags |-> t.flags, n |-> t.pl.n, seq |-> t.seq, ack |-> t.ack, id |-> t.id]

\* The helper's deferred function: write resets the payload.
deferred(t, h) == IF h = "write" THEN [t EXCEPT !.pl = NoPayload] ELSE t

\* WritePacketData: fails on a closed handle, and may fail on an open one.
\* (After construction an injection fails only once the handle is closed.)
FailBudget == IF pc["dialer"] \in {"returned", "off"} THEN 0 ELSE MaxFail
InjectOutcomes == IF handle = "closed" THEN {FALSE}
                  ELSE IF nfail < FailBudget THEN {TRUE, FALSE} ELSE {TRUE}

\* The wire observer of the dial handshake: SYN out, SYN/ACK in, ACK out.
HsAfterIn(f) ==
    IF role = "dial" /\ hs = "syn" /\ {SYN, ACK} \subseteq f.flags THEN "synack" ELSE hs
HsAfterOut(h0, seg) ==
    IF role = "dial" /\ h0 = "none" /\ seg.flags = {SYN} THEN "syn"
    ELSE IF role = "dial" /\ h0 = "synack" /\ seg.flags = {ACK} THEN "ack"
    ELSE h0

\* A segment leaves from template k (h0: the observer before it leaves).
\* sent counts the segments of DialRAW, per helper.
Emit(k, seg, h0) ==
    /\ lastOut' = [lastOut EXCEPT ![k] = seg]
    /\ sentBytes' = [sentBytes EXCEPT ![k] = @ + (IF {PSH, ACK} \subseteq seg.flags THEN seg.n ELSE 0)]
    /\ sent' = IF pc["dialer"] \in {"returned", "off"} THEN sent
               ELSE [sent EXCEPT ![seg.h] = @ + 1]
    /\ hs' = HsAfterOut(h0, seg)
    /\ nfail' = nfail
NoEmit(h0) ==
    /\ UNCHANGED <<lastOut, sentBytes, sent>>
    /\ hs' = h0
    /\ nfail' = IF handle = "open" THEN nfail + 1 ELSE nfail

\* A whole send helper run by the only task of the owner, on template k whose
\* fields the caller has just set to t0.
SendWhole(k, t0, h, b, ok, h0) ==
    LET t1 == incId(setFlags(updateTCP(t0), h, b)) IN
    /\ tmpl' = [tmpl EXCEPT ![k] = deferred(t1, h)]
    /\ IF ok THEN Emit(k, Serialize(t1, h), h0) ELSE NoEmit(h0)

\* -------------------------------------------------------------------- Init
InitOwner ==
    /\ opts \in [NoHTTP : BOOLEAN, IgnRST : BOOLEAN]
    /\ rtimer = "nil" /\ wtimer = "nil" /\ lock = NIL /\ handle = "open"
    /\ call = [p \in Procs |-> NoCall]
    /\ cl = NIL
    /\ retry = 0 /\ ackn = Zero32 /\ seqn = Zero32 /\ dialErr = "none"
    /\ winfo = [key |-> NIL, b |-> NoPayload]
    /\ mutex = NIL
    /\ rd = NoResult /\ wr = NoResult
    /\ crashed = FALSE
    /\ dupIn = FALSE /\ lastIn = NoIn /\ writes = 0 /\ nfail = 0
    /\ packOut = NoSeg
    /\ dstAddr = IF role = "dial" THEN DialPeer ELSE NIL

InitShared ==
    /\ InitOwner
    /\ frames = 0
    /\ newcons = {} /\ conns = {}
    /\ info = [k \in Peers |-> NoInfo]

\* Nothing was sent or captured yet.
InitFresh ==
    /\ hseqn = Zero32 /\ mss = 0 /\ packn = Zero32
    /\ lastOut = [k \in TmplIds |-> NoSeg]
    /\ sentBytes = [k \in TmplIds |-> 0]
    /\ sent = [h \in Helpers |-> 0]
    /\ hs = "none"

\* DialRAW up to the seeding of Seq (line 458): the template exists, Ack = 0.
InitDial ==
    /\ role = "dial"
    /\ InitShared /\ InitFresh
    /\ \E r \in Seeds :
         /\ tmpl = [k \in TmplIds |->
                      IF k = DialPeer
                      THEN [seq |-> r.seq, ack |-> Zero32, id |-> r.id, flags |-> {},
                            pl |-> NoPayload]
                      ELSE NoTmpl]
         /\ seed = [k \in TmplIds |-> IF k = DialPeer THEN r.seq ELSE Zero32]
    /\ layer = DialPeer
    /\ pc = [p \in Procs |-> IF p = "dialer" THEN "syn_top" ELSE "off"]

\* ----------------------------------------------------------- readLayers
\* The frames readLayers hands to its caller: with IgnRST, RST frames are skipped.
Skipped(f) == opts.IgnRST /\ RST \in f.flags

\* ----------------------------------------------------------------- DialRAW
RetryExhaustedBug(r) == r > MaxRetry + 1
RetryExhausted(r) == r > MaxRetry

DialTail == UNCHANGED <<packOut, wtimer, dstAddr, role, opts, layer, lock, call, cl, packn, newcons, conns, info, winfo, mutex,
                        rd, wr, crashed, seed, dupIn, lastIn, writes>>
QuietWire == UNCHANGED <<lastOut, sentBytes, sent, nfail>>

\* Lines 469-472 and 512-515: the retry budget of the phase is spent.
DialGiveUp ==
    /\ pc["dialer"] \in {"syn_top", "req_top"}
    /\ RetryExhausted(retry)
    /\ dialErr' = "retry too many times"
    /\ pc' = [pc EXCEPT !["dialer"] = "defers"]
    /\ UNCHANGED <<tmpl, hseqn, mss, rtimer, handle, retry, ackn, seqn, hs, frames>>
    /\ QuietWire /\ DialTail

\* Lines 473-478: one SYN, then the read deadline is armed.
DialSendSyn ==
    /\ pc["dialer"] = "syn_top"
    /\ ~RetryExhausted(retry)
    /\ retry' = retry + 1
    /\ \E ok \in InjectOutcomes :
         /\ SendWhole(DialPeer, tmpl[DialPeer], "sendSyn", NoPayload, ok, hs)
         /\ IF ok
            THEN /\ rtimer' = "armed"
                 /\ pc' = [pc EXCEPT !["dialer"] = "syn_read"]
                 /\ dialErr' = dialErr
            ELSE /\ rtimer' = rtimer
                 /\ pc' = [pc EXCEPT !["dialer"] = "defers"]
                 /\ dialErr' = "send"
    /\ UNCHANGED <<hseqn, mss, handle, ackn, seqn, frames>>
    /\ DialTail

\* Lines 479-487 and 525-533: the read of phase 1 or 2 times out (temporary: retry).
DialReadTimeout ==
    /\ pc["dialer"] \in {"syn_read", "req_read"}
    /\ rtimer # "nil"
    /\ pc' = [pc EXCEPT !["dialer"] = IF @ = "syn_read" THEN "syn_top" ELSE "req_top"]
    /\ UNCHANGED <<tmpl, hseqn, mss, rtimer, handle, retry, ackn, seqn, dialErr, hs, frames>>
    /\ QuietWire /\ DialTail

\* readLayers skips a frame (RST with IgnRST) and goes on waiting.
DialReadSkip ==
    /\ pc["dialer"] \in {"syn_read", "req_read"}
    /\ frames < MaxDialFrames
    /\ \E f \in FramesOf(DialPeer) : Skipped(f)
    /\ frames' = frames + 1
    /\ UNCHANGED <<tmpl, hseqn, mss, rtimer, handle, pc, retry, ackn, seqn, dialErr, hs>>
    /\ QuietWire /\ DialTail

\* Where DialRAW goes after the loop of phase 1 (lines 499-504).
AfterPhase1 == IF opts.NoHTTP THEN "defers" ELSE "req_top"

\* Lines 488-504: the frame captured in phase 1.  The break of line 499 is
\* outside the if: any frame ends the loop.
DialReadSynAck ==
    /\ pc["dialer"] = "syn_read"
    /\ frames < MaxDialFrames
    /\ \E f \in FramesOf(DialPeer) :
         /\ ~Skipped(f)
         /\ frames' = frames + 1
         /\ IF {SYN, ACK} \subseteq f.flags
            THEN LET t0 == [tmpl[DialPeer] EXCEPT !.ack = Add32(f.seq, 1),
                                                  !.seq = Add32(@, 1)] IN
                 /\ ackn' = t0.ack
                 /\ seqn' = t0.seq
                 /\ mss' = getMssFromTcpLayer(f.options)
                 /\ \E ok \in InjectOutcomes :
                      /\ SendWhole(DialPeer, t0, "sendAck", NoPayload, ok, HsAfterIn(f))
                      /\ dialErr' = IF ok THEN dialErr ELSE "send"
                      /\ pc' = [pc EXCEPT !["dialer"] = IF ok THEN AfterPhase1 ELSE "defers"]
                      /\ retry' = IF ok /\ ~opts.NoHTTP THEN 0 ELSE retry
            ELSE /\ pc' = [pc EXCEPT !["dialer"] = AfterPhase1]
                 /\ retry' = IF opts.NoHTTP THEN retry ELSE 0
                 /\ hs' = HsAfterIn(f)
                 /\ UNCHANGED <<tmpl, mss, ackn, seqn, dialErr>>
                 /\ QuietWire
    /\ UNCHANGED <<hseqn, rtimer, handle>>
    /\ DialTail

\* Lines 516-524: one copy of the decoy request (write does not advance Seq).
DialSendReq ==
    /\ pc["dialer"] = "req_top"
    /\ ~RetryExhausted(retry)
    /\ retry' = retry + 1
    /\ \E ok \in InjectOutcomes :
         /\ SendWhole(DialPeer, tmpl[DialPeer], "write", buildHTTPRequest, ok, hs)
         /\ IF ok
            THEN /\ rtimer' = "armed"
                 /\ pc' = [pc EXCEPT !["dialer"] = "req_read"]
                 /\ dialErr' = dialErr
            ELSE /\ rtimer' = rtimer
                 /\ pc' = [pc EXCEPT !["dialer"] = "defers"]
                 /\ dialErr' = "send"
    /\ UNCHANGED <<hseqn, mss, handle, ackn, seqn, frames>>
    /\ DialTail

\* Lines 544-553: the frame is the decoy response.
IsHTTPResponse(f) ==
    /\ {PSH, ACK} \subseteq f.flags
    /\ f.pl.n >= 20
    /\ f.pl.head = "HTTP" /\ f.pl.tail = CRLF2

\* Lines 534-554: the frame captured in phase 2.
DialReadRep ==
    /\ pc["dialer"] = "req_read"
    /\ frames < MaxDialFrames
    /\ \E f \in FramesOf(DialPeer) :
         /\ ~Skipped(f)
         /\ frames' = frames + 1
         /\ IF {SYN, ACK} \subseteq f.flags
            THEN LET t0 == [tmpl[DialPeer] EXCEPT !.ack = ackn, !.seq = seqn] IN
                 \E ok \in InjectOutcomes :
                      /\ SendWhole(DialPeer, t0, "sendAck", NoPayload, ok, HsAfterIn(f))
                      /\ dialErr' = IF ok THEN dialErr ELSE "send"
                      /\ pc' = [pc EXCEPT !["dialer"] = IF ok THEN "req_top" ELSE "defers"]
                      /\ hseqn' = hseqn
            ELSE /\ IF IsHTTPResponse(f)
                    THEN /\ hseqn' = f.seq
                         /\ tmpl' = [tmpl EXCEPT ![DialPeer].seq = Add32(@, buildHTTPRequest.n),
                                                 ![DialPeer].ack = Add32(f.seq, f.pl.n)]
                         /\ pc' = [pc EXCEPT !["dialer"] = "defers"]
                    ELSE /\ pc' = [pc EXCEPT !["dialer"] = "req_top"]
                         /\ UNCHANGED <<tmpl, hseqn>>
                 /\ hs' = HsAfterIn(f)
                 /\ dialErr' = dialErr
                 /\ QuietWire
    /\ UNCHANGED <<mss, rtimer, handle, retry, ackn, seqn>>
    /\ DialTail

\* The packets channel is closed under the read: a permanent error.
DialReadClosed ==
    /\ pc["dialer"] \in {"syn_read", "req_read"}
    /\ nfail < MaxFail
    /\ dialErr' = "read from closed connection"
    /\ pc' = [pc EXCEPT !["dialer"] = "defers"]
    /\ nfail' = nfail + 1
    /\ UNCHANGED <<tmpl, hseqn, mss, rtimer, handle, retry, ackn, seqn, hs, frames,
                   lastOut, sentBytes, sent>>
    /\ DialTail

\* The deferred functions of DialRAW, last first (lines 467, 459-463, 451-455):
\* the timer is dropped; on an error the connection is closed (FIN, then the
\* handles); without one the ack pacer is started and the caller has the conn.
DialDefers ==
    /\ pc["dialer"] = "defers"
    /\ rtimer' = "nil"
    /\ IF dialErr # "none"
       THEN /\ \E ok \in InjectOutcomes :
                 SendWhole(DialPeer, tmpl[DialPeer], "sendFin", NoPayload, ok, hs)
            /\ handle' = "closed"
            /\ pc' = [pc EXCEPT !["dialer"] = "failed"]
            /\ packn' = packn
       ELSE /\ UNCHANGED <<tmpl, handle, hs>>
            /\ QuietWire
            /\ pc' = [p \in Procs |-> CASE p = "dialer" -> "returned"
                                        [] p = "pacer" -> "sleep"
                                        [] OTHER -> "idle"]
            /\ packn' = tmpl[DialPeer].ack
    /\ UNCHANGED <<hseqn, mss, retry, ackn, seqn, dialErr, frames>>
    /\ UNCHANGED <<packOut, wtimer, dstAddr, role, opts, layer, lock, call, cl, newcons, conns, info, winfo, mutex,
                   rd, wr, crashed, seed, dupIn, lastIn, writes>>

DialNext ==
    \/ DialGiveUp \/ DialSendSyn \/ DialReadTimeout \/ DialReadSkip \/ DialReadSynAck
    \/ DialSendReq \/ DialReadRep \/ DialReadClosed \/ DialDefers

SpecDial == InitDial /\ [][DialNext]_vars

\* ===================================================== tasks of one owner
\* What DialRAW hands to its caller when it returns without error after one
\* SYN, the peer's SYN/ACK, the ACK and, unless NoHTTP, one decoy request
\* answered by a 20-byte response.  ConnPeerSeq is the seq of the last segment
\* the peer sent in the handshake (the SYN/ACK, or the decoy response).
ConnPeerSeq == <<0, 500>>
ConnSeed == [seq |-> <<U16 - 1, U16 - 30>>, id |-> U16 - 5]
InitConn ==
    /\ role = "dial"
    /\ InitShared
    /\ mss = getMssFromTcpLayer(PeerOptions)
    /\ hs = "ack"
    /\ sent = [h \in Helpers |-> CASE h \in {"sendSyn", "sendAck"} -> 1
                                   [] h = "write" -> IF opts.NoHTTP THEN 0 ELSE 1
                                   [] OTHER -> 0]
    /\ \E r \in {ConnSeed} :
         LET a == IF opts.NoHTTP THEN Add32(ConnPeerSeq, 1) ELSE Add32(ConnPeerSeq, 20)
             a0 == IF opts.NoHTTP THEN a ELSE ConnPeerSeq
             sent2 == IF opts.NoHTTP THEN <<"sendSyn", "sendAck">> ELSE <<"sendAck", "write">>
             n == IF opts.NoHTTP THEN 2 ELSE 3
             t == [seq |-> Add32(r.seq, IF opts.NoHTTP THEN 1 ELSE 1 + buildHTTPRequest.n),
                   ack |-> a, id |-> (r.id + n) % U16,
                   flags |-> HelperFlags(sent2[2]), pl |-> NoPayload]
             last == [h |-> sent2[2], flags |-> HelperFlags(sent2[2]),
                      n |-> IF opts.NoHTTP THEN 0 ELSE buildHTTPRequest.n,
                      seq |-> Add32(r.seq, 1), ack |-> a0, id |-> t.id]
         IN /\ tmpl = [k \in TmplIds |-> IF k = DialPeer THEN t ELSE NoTmpl]
            /\ seed = [k \in TmplIds |-> IF k = DialPeer THEN r.seq ELSE Zero32]
            /\ hseqn = IF opts.NoHTTP THEN Zero32 ELSE ConnPeerSeq
            /\ packn = a
            /\ lastOut = [k \in TmplIds |-> IF k = DialPeer THEN last ELSE NoSeg]
            /\ sentBytes = [k \in TmplIds |-> IF k = DialPeer THEN last.n ELSE 0]
    /\ layer = DialPeer
    /\ pc = [p \in Procs |-> CASE p = "dialer" -> "returned"
                               [] p = "pacer" -> "sleep"
                               [] OTHER -> "idle"]

\* ------------------------------------------------------ send helper steps
\* A panic: the task dereferenced a nil conn.layer.
Crash ==
    /\ crashed' = TRUE
    /\ UNCHANGED <<packOut, wtimer, dstAddr, role, opts, tmpl, layer, hseqn, mss, rtimer, lock, handle, pc, call, cl,
                   retry, ackn, seqn, dialErr, packn, newcons, conns, info, winfo, mutex,
                   rd, wr, histVars>>

HelperTail == UNCHANGED <<packOut, wtimer, dstAddr, role, opts, layer, hseqn, mss, rtimer, lock, handle, pc, cl,
                          retry, ackn, seqn, dialErr, packn, newcons, conns, info, winfo,
                          mutex, rd, wr, seed, dupIn, lastIn, frames, writes>>
Enter(h, b) == [h |-> h, stage |-> "upd", b |-> b, lyr |-> NIL, tcp |-> NIL, err |-> FALSE]

\* updateTCP on conn.layer.tcp.
HelperUpd(p) ==
    /\ ~crashed /\ call[p].stage = "upd"
    /\ IF layer = NIL THEN Crash
       ELSE /\ tmpl' = [tmpl EXCEPT ![layer] = updateTCP(@)]
            /\ call' = [call EXCEPT ![p].stage = "set"]
            /\ UNCHANGED <<crashed, lastOut, sentBytes, sent, hs, nfail>>
            /\ HelperTail

\* The helper's flags (and payload) on conn.layer.tcp, read again.
HelperSet(p) ==
    /\ ~crashed /\ call[p].stage = "set"
    /\ IF layer = NIL THEN Crash
       ELSE /\ tmpl' = [tmpl EXCEPT ![layer] = setFlags(@, call[p].h, call[p].b)]
            /\ call' = [call EXCEPT ![p].stage = "send", ![p].tcp = layer]
            /\ UNCHANGED <<crashed, lastOut, sentBytes, sent, hs, nfail>>
            /\ HelperTail

\* sendPacket: layer := conn.layer; layer.ip4.Id++; SerializeLayers of it;
\* WritePacketData.  What the caller does next without touching shared state
\* is part of the step: RAWConn.ReadFrom goes back to readLayers or returns
\* the error (lines 246-250), ackSender releases the lock and loops or ends
\* (lines 336-340).
HelperSend(p) ==
    /\ ~crashed /\ call[p].stage = "send"
    /\ IF layer = NIL THEN Crash
       ELSE /\ tmpl' = [tmpl EXCEPT ![layer] = incId(@)]
            /\ \E ok \in InjectOutcomes :
                 /\ IF ok THEN Emit(layer, Serialize(incId(tmpl[layer]), call[p].h), hs)
                          ELSE NoEmit(hs)
                 /\ packOut' = IF ok /\ p = "pacer"
                               THEN Serialize(incId(tmpl[layer]), call[p].h)
                               ELSE packOut
                 /\ IF p = "reader" /\ role = "dial"
                    THEN /\ call' = [call EXCEPT ![p] = NoCall]
                         /\ pc' = [pc EXCEPT ![p] = IF ok THEN "wait" ELSE "idle"]
                         /\ rd' = IF ok THEN rd ELSE [n |-> 0, addr |-> NIL, err |-> "send", op |-> NIL]
                         /\ rtimer' = IF ok THEN rtimer ELSE "nil"
                         /\ lock' = lock
                    ELSE IF p = "pacer"
                    THEN /\ call' = [call EXCEPT ![p] = NoCall]
                         /\ pc' = [pc EXCEPT ![p] = IF ok THEN "sleep" ELSE "exited"]
                         /\ lock' = NIL
                         /\ UNCHANGED <<rd, rtimer>>
                    ELSE /\ call' = [call EXCEPT ![p].stage = "done", ![p].lyr = layer,
                                                 ![p].err = ~ok]
                         /\ UNCHANGED <<pc, rd, rtimer, lock>>
            /\ UNCHANGED <<wtimer, dstAddr, role, opts, layer, hseqn, mss, handle, cl, retry, ackn, seqn,
                           dialErr, packn, newcons, conns, info, winfo, mutex, wr,
                           crashed, seed, dupIn, lastIn, frames, writes>>

HelperStep == \E p \in Procs : HelperUpd(p) \/ HelperSet(p) \/ HelperSend(p)

\* The template after the helper of task p returned (its deferred function ran).
AfterHelper(p) ==
    IF call[p].tcp = NIL THEN tmpl
    ELSE [tmpl EXCEPT ![call[p].tcp] = deferred(@, call[p].h)]

\* ------------------------------------------------- RAWConn: public surface
ConnKept == UNCHANGED <<packOut, lastIn, role, opts, layer, mss, retry, ackn, seqn, dialErr, newcons, conns,
                         info, mutex, crashed, seed>>
ConnFixed == ConnKept /\ wtimer' = wtimer /\ dstAddr' = dstAddr
ConnTail == ConnFixed /\ dupIn' = dupIn
Quiet == UNCHANGED <<lastOut, sentBytes, sent, hs, nfail>>

WriteData == {Data(5)}
Result(n, a, e, o) == [n |-> n, addr |-> a, err |-> e, op |-> o]

\* SetReadDeadline: a new timer replaces the old one.
SetReadDeadline ==
    /\ ~crashed /\ pc["reader"] = "idle"
    /\ rtimer' = "armed"
    /\ UNCHANGED <<tmpl, hseqn, lock, handle, pc, call, cl, packn, winfo, rd, wr, frames, writes>>
    /\ Quiet /\ ConnTail

\* SetWriteDeadline(t): a new timer replaces the old one; t is the deadline.
Deadlines == {"past", "future"}
SetWriteDeadline ==
    /\ ~crashed /\ role = "dial" /\ pc["writer"] = "idle"
    /\ \E t \in Deadlines : wtimer' = t
    /\ UNCHANGED <<tmpl, hseqn, rtimer, lock, handle, pc, call, cl, packn, winfo, rd, wr,
                   frames, writes, dupIn, dstAddr>>
    /\ Quiet /\ ConnKept

\* SetDeadline(t): SetReadDeadline(t), then SetWriteDeadline(t).
SetDeadline ==
    /\ ~crashed /\ role = "dial" /\ pc["reader"] = "idle" /\ pc["writer"] = "idle"
    /\ rtimer' = "armed"
    /\ \E t \in Deadlines : wtimer' = t
    /\ UNCHANGED <<tmpl, hseqn, lock, handle, pc, call, cl, packn, winfo, rd, wr,
                   frames, writes, dupIn, dstAddr>>
    /\ Quiet /\ ConnKept

\* RAWConn.ReadFrom is called.
ReadFromCall ==
    /\ ~crashed /\ role = "dial" /\ pc["reader"] = "idle"
    /\ pc' = [pc EXCEPT !["reader"] = "wait"]
    /\ UNCHANGED <<tmpl, hseqn, rtimer, lock, handle, call, cl, packn, winfo, rd, wr, frames, writes>>
    /\ Quiet /\ ConnTail

\* readLayers, lines 54-60: the timer fires before a frame comes.  The error
\* names conn.RemoteAddr(), read through conn.layer.  ReadFrom's deferred
\* function drops the timer.
ReadFromTimeout ==
    /\ ~crashed /\ role = "dial" /\ pc["reader"] = "wait"
    /\ rtimer = "armed"
    /\ rd' = Result(0, NIL, "timeout", layer)
    /\ rtimer' = "nil"
    /\ pc' = [pc EXCEPT !["reader"] = "idle"]
    /\ UNCHANGED <<tmpl, hseqn, lock, handle, call, cl, packn, winfo, wr, frames, writes>>
    /\ Quiet /\ ConnTail

\* readLayers, lines 67-70: the packet source was closed.
ReadFromClosed ==
    /\ ~crashed /\ role = "dial" /\ pc["reader"] = "wait"
    /\ handle = "closed"
    /\ rd' = Result(0, NIL, "read from closed connection", NIL)
    /\ rtimer' = "nil"
    /\ pc' = [pc EXCEPT !["reader"] = "idle"]
    /\ UNCHANGED <<tmpl, hseqn, lock, handle, call, cl, packn, winfo, wr, frames, writes>>
    /\ Quiet /\ ConnTail

\* Line 252: the frames ReadFrom passes over.
ReadFromFiltersBug(f, h) == PSH \notin f.flags \/ ACK \notin f.flags
ReadFromFilters(f, h) == PSH \notin f.flags \/ ACK \notin f.flags \/ f.seq = h

\* Lines 265-267: the ack cursor after a payload of n bytes at seq.
AckAfterRead(a, seq, n) == IF Gt64(seq, n, a) THEN Add32(seq, n) ELSE a

\* Lines 237-271: one frame from readLayers.
ReadFromFrame ==
    /\ ~crashed /\ role = "dial" /\ pc["reader"] = "wait"
    /\ handle = "open" /\ frames < MaxFrames
    /\ \E f \in FramesOf(DialPeer) :
         /\ frames' = frames + 1
         /\ dupIn' = (~Skipped(f) /\ {PSH, ACK} \subseteq f.flags /\ f.seq = hseqn)
         /\ IF Skipped(f)
            THEN UNCHANGED <<tmpl, rtimer, pc, call, cl, rd>>
            ELSE /\ cl' = cl
                 /\ IF {SYN, ACK} \subseteq f.flags
                    THEN /\ call' = [call EXCEPT !["reader"] = Enter("sendAck", NoPayload)]
                         /\ pc' = [pc EXCEPT !["reader"] = "acking"]
                         /\ UNCHANGED <<tmpl, rtimer, rd>>
                    ELSE IF ReadFromFilters(f, hseqn)
                    THEN UNCHANGED <<tmpl, rtimer, pc, call, rd>>
                    ELSE /\ tmpl' = IF f.pl.n > 0
                                    THEN [tmpl EXCEPT ![layer].ack = AckAfterRead(@, f.seq, f.pl.n)]
                                    ELSE tmpl
                         /\ rd' = Result(f.pl.n, layer, "none", NIL)
                         /\ rtimer' = "nil"
                         /\ pc' = [pc EXCEPT !["reader"] = "idle"]
                         /\ call' = call
    /\ UNCHANGED <<hseqn, lock, handle, packn, winfo, wr, writes>>
    /\ Quiet /\ ConnFixed

\* RAWConn.WriteTo, lines 274-279: the template's DstIP and DstPort become
\* addr, then Write(b) is called.
ConnWriteTo ==
    /\ ~crashed /\ role = "dial" /\ pc["writer"] = "idle"
    /\ writes < MaxWrites
    /\ \E a \in Peers : dstAddr' = a
    /\ \E b \in WriteData : winfo' = [key |-> NIL, b |-> b]
    /\ writes' = writes + 1
    /\ pc' = [pc EXCEPT !["writer"] = "lock"]
    /\ UNCHANGED <<tmpl, hseqn, rtimer, wtimer, lock, handle, call, cl, packn, rd, wr, frames,
                   dupIn>>
    /\ Quiet /\ ConnKept

\* RAWConn.Write is called.
WriteCall ==
    /\ ~crashed /\ role = "dial" /\ pc["writer"] = "idle"
    /\ writes < MaxWrites
    /\ \E b \in WriteData : winfo' = [key |-> NIL, b |-> b]
    /\ writes' = writes + 1
    /\ pc' = [pc EXCEPT !["writer"] = "lock"]
    /\ UNCHANGED <<tmpl, hseqn, rtimer, lock, handle, call, cl, packn, rd, wr, frames>>
    /\ Quiet /\ ConnTail

\* Line 223: conn.lock.Lock(), then write(b) is entered.
WriteLock ==
    /\ ~crashed /\ pc["writer"] = "lock" /\ lock = NIL
    /\ lock' = "writer"
    /\ call' = [call EXCEPT !["writer"] = Enter("write", winfo.b)]
    /\ pc' = [pc EXCEPT !["writer"] = "writing"]
    /\ UNCHANGED <<tmpl, hseqn, rtimer, handle, cl, packn, winfo, rd, wr, frames, writes>>
    /\ Quiet /\ ConnTail

\* Lines 218, 226-227: write's deferred function, then Seq += n on
\* conn.layer.tcp whatever write returned, then the lock is released.
SeqAfterWrite(q, n, err) == Add32(q, n)
WriteReturn ==
    /\ ~crashed /\ pc["writer"] = "writing"
    /\ call["writer"].stage = "done"
    /\ IF layer = NIL THEN Crash
       ELSE /\ tmpl' = [AfterHelper("writer") EXCEPT
                          ![layer].seq = SeqAfterWrite(@, winfo.b.n, call["writer"].err)]
            /\ lock' = NIL
            /\ wr' = Result(winfo.b.n, NIL, IF call["writer"].err THEN "send" ELSE "none",
                            NIL)
            /\ call' = [call EXCEPT !["writer"] = NoCall]
            /\ pc' = [pc EXCEPT !["writer"] = "idle"]
            /\ UNCHANGED <<hseqn, rtimer, handle, cl, packn, winfo, rd, frames, writes>>
            /\ Quiet /\ ConnTail

\* ackSender, lines 329-335: the timer fired and Ack is not the value last sent.
PacerWake ==
    /\ ~crashed /\ pc["pacer"] = "sleep"
    /\ packn # tmpl[layer].ack
    /\ packn' = tmpl[layer].ack
    /\ pc' = [pc EXCEPT !["pacer"] = "lock"]
    /\ UNCHANGED <<tmpl, hseqn, rtimer, lock, handle, call, cl, winfo, rd, wr, frames, writes>>
    /\ Quiet /\ ConnTail

PacerLock ==
    /\ ~crashed /\ pc["pacer"] = "lock" /\ lock = NIL
    /\ lock' = "pacer"
    /\ call' = [call EXCEPT !["pacer"] = Enter("sendAck", NoPayload)]
    /\ pc' = [pc EXCEPT !["pacer"] = "acking"]
    /\ UNCHANGED <<tmpl, hseqn, rtimer, handle, cl, packn, winfo, rd, wr, frames, writes>>
    /\ Quiet /\ ConnTail

\* RAWConn.Close, lines 97-108: udp and handle are set, so a FIN is sent
\* (without the lock); then the socket and the handle are closed.  Close is
\* taken as one step.
Close ==
    /\ ~crashed /\ role = "dial" /\ pc["closer"] = "idle"
    /\ \E ok \in InjectOutcomes : SendWhole(layer, tmpl[layer], "sendFin", NoPayload, ok, hs)
    /\ handle' = "closed"
    /\ pc' = [pc EXCEPT !["closer"] = "closed"]
    /\ UNCHANGED <<hseqn, rtimer, lock, call, cl, packn, winfo, rd, wr, frames, writes>>
    /\ ConnTail

ConnNext ==
    \/ SetReadDeadline \/ ReadFromCall \/ ReadFromTimeout \/ ReadFromClosed
    \/ ReadFromFrame
    \/ WriteCall \/ WriteLock \/ WriteReturn
    \/ PacerWake \/ PacerLock
    \/ Close
    \/ HelperStep

SpecConn == InitConn /\ [][ConnNext]_vars

\* The same connection with the rest of its public surface: the write
\* deadline, SetDeadline and WriteTo.
ApiNext == ConnNext \/ SetWriteDeadline \/ SetDeadline \/ ConnWriteTo
SpecApi == InitConn /\ [][ApiNext]_vars

\* A dial connection whose first ReadFrom has just returned PacerData, sent
\* by the peer at the seq the template expected: Ack is ahead of the value
\* the ack pacer sampled when it started (line 325), and one frame is spent.
PacerData == Data(5)
InitPacer ==
    /\ role = "dial"
    /\ opts \in [NoHTTP : BOOLEAN, IgnRST : BOOLEAN]
    /\ rtimer = "nil" /\ wtimer = "nil" /\ lock = NIL /\ handle = "open"
    /\ call = [p \in Procs |-> NoCall]
    /\ cl = NIL
    /\ retry = 0 /\ ackn = Zero32 /\ seqn = Zero32 /\ dialErr = "none"
    /\ winfo = [key |-> NIL, b |-> NoPayload]
    /\ mutex = NIL
    /\ wr = NoResult
    /\ crashed = FALSE
    /\ dupIn = FALSE /\ lastIn = NoIn /\ writes = 0 /\ nfail = 0
    /\ packOut = NoSeg
    /\ dstAddr = IF role = "dial" THEN DialPeer ELSE NIL
    /\ frames = MaxFrames - 1
    /\ newcons = {} /\ conns = {}
    /\ info = [k \in Peers |-> NoInfo]
    /\ mss = getMssFromTcpLayer(PeerOptions)
    /\ hs = "ack"
    /\ sent = [h \in Helpers |-> CASE h \in {"sendSyn", "sendAck"} -> 1
                                   [] h = "write" -> IF opts.NoHTTP THEN 0 ELSE 1
                                   [] OTHER -> 0]
    /\ LET r == ConnSeed
           a == IF opts.NoHTTP THEN Add32(ConnPeerSeq, 1) ELSE Add32(ConnPeerSeq, 20)
           a0 == IF opts.NoHTTP THEN a ELSE ConnPeerSeq
           h == IF opts.NoHTTP THEN "sendAck" ELSE "write"
           n == IF opts.NoHTTP THEN 2 ELSE 3
           t == [seq |-> Add32(r.seq, IF opts.NoHTTP THEN 1 ELSE 1 + buildHTTPRequest.n),
                 ack |-> AckAfterRead(a, a, PacerData.n), id |-> (r.id + n) % U16,
                 flags |-> HelperFlags(h), pl |-> NoPayload]
           last == [h |-> h, flags |-> HelperFlags(h),
                    n |-> IF opts.NoHTTP THEN 0 ELSE buildHTTPRequest.n,
                    seq |-> Add32(r.seq, 1), ack |-> a0, id |-> t.id]
       IN /\ tmpl = [k \in TmplIds |-> IF k = DialPeer THEN t ELSE NoTmpl]
          /\ seed = [k \in TmplIds |-> IF k = DialPeer THEN r.seq ELSE Zero32]
          /\ hseqn = IF opts.NoHTTP THEN Zero32 ELSE ConnPeerSeq
          /\ packn = a
          /\ lastOut = [k \in TmplIds |-> IF k = DialPeer THEN last ELSE NoSeg]
          /\ sentBytes = [k \in TmplIds |-> IF k = DialPeer THEN last.n ELSE 0]
    /\ rd = Result(PacerData.n, DialPeer, "none", NIL)
    /\ layer = DialPeer
    /\ pc = [p \in Procs |-> CASE p = "dialer" -> "returned"
                               [] p = "pacer" -> "sleep"
                               [] OTHER -> "idle"]

\* The Go scheduler runs every goroutine that can run: the ack pacer's timer
\* fires and it gets the lock when it is free; a task inside a send helper,
\* in Write, or in a read on a closed handle goes on.
PacerFair ==
    /\ WF_vars(PacerWake) /\ WF_vars(PacerLock)
    /\ WF_vars(WriteLock) /\ WF_vars(WriteReturn) /\ WF_vars(ReadFromClosed)
    /\ \A p \in Procs : WF_vars(HelperUpd(p) \/ HelperSet(p) \/ HelperSend(p))
SpecPacer == InitPacer /\ [][ConnNext]_vars /\ PacerFair

\* ============================================================ RAWListener
\* ListenRAW: no template yet (layer is nil), both tables empty.
InitListen ==
    /\ role = "listen"
    /\ InitShared /\ InitFresh
    /\ tmpl = [k \in TmplIds |-> NoTmpl]
    /\ seed = [k \in TmplIds |-> Zero32]
    /\ layer = NIL
    /\ pc = [p \in Procs |-> IF p \in {"reader", "writer", "closer"} THEN "idle" ELSE "off"]

ListenFixed == UNCHANGED <<packOut, wtimer, dstAddr, role, opts, hseqn, mss, retry, ackn, seqn, dialErr, packn, hs, dupIn>>
ListenTail == ListenFixed /\ lastIn' = lastIn
QuietL == UNCHANGED <<lastOut, sentBytes, sent, nfail>>

\* RAWListener.ReadFrom is called.
LReadFromCall ==
    /\ ~crashed /\ role = "listen" /\ pc["reader"] = "idle"
    /\ pc' = [pc EXCEPT !["reader"] = "wait"]
    /\ UNCHANGED <<tmpl, layer, rtimer, lock, handle, call, cl, newcons, conns, info, winfo,
                   mutex, rd, wr, crashed, seed, frames, writes>>
    /\ QuietL /\ ListenTail

\* readLayers, lines 54-60, under RAWListener.ReadFrom: the error text is built
\* from conn.RemoteAddr(), which reads conn.layer.ip4: a nil layer panics.
\* No deferred function drops the timer here; its channel is drained.
LReadFromTimeout ==
    /\ ~crashed /\ role = "listen" /\ pc["reader"] = "wait"
    /\ rtimer = "armed"
    /\ IF layer = NIL THEN Crash
       ELSE /\ rd' = Result(0, NIL, "timeout", layer)
            /\ rtimer' = "spent"
            /\ pc' = [pc EXCEPT !["reader"] = "idle"]
            /\ UNCHANGED <<tmpl, layer, lock, handle, call, cl, newcons, conns, info, winfo,
                           mutex, wr, crashed, seed, frames, writes>>
            /\ QuietL /\ ListenTail

\* readLayers, lines 67-70: the packet source was closed.
LReadFromClosed ==
    /\ ~crashed /\ role = "listen" /\ pc["reader"] = "wait"
    /\ handle = "closed"
    /\ rd' = Result(0, NIL, "read from closed connection", NIL)
    /\ pc' = [pc EXCEPT !["reader"] = "idle"]
    /\ UNCHANGED <<tmpl, layer, rtimer, lock, handle, call, cl, newcons, conns, info, winfo,
                   mutex, wr, crashed, seed, frames, writes>>
    /\ QuietL /\ ListenTail

\* Lines 709-712 and 766-769: the payload has the shape of the decoy request.
IsHTTPRequest(f) ==
    /\ f.pl.n > 20
    /\ f.pl.head = "POST" /\ f.pl.tail = CRLF2

\* Lines 751-754 and 782-785: the flow moves to conns in one mutex.run.
PromoteBug(tables, k) == [tables EXCEPT !.conns = @ \cup {k}]
Promote(tables, k) == [newcons |-> tables.newcons \ {k}, conns |-> tables.conns \cup {k}]

\* Lines 657-666: closeConnByAddr takes the flow out of the table it is in.
EvictBug(tables, k) == [tables EXCEPT !.newcons = @ \ {k}]
Evict(tables, k) ==
    IF k \in tables.newcons THEN [tables EXCEPT !.newcons = @ \ {k}]
    ELSE [tables EXCEPT !.conns = @ \ {k}]

Tables == [newcons |-> newcons, conns |-> conns]
SetTables(t) == newcons' = t.newcons /\ conns' = t.conns

\* The reader enters send helper h on template k (listener.layer = ...).
LEnter(k, h, b, at) ==
    /\ layer' = k
    /\ call' = [call EXCEPT !["reader"] = Enter(h, b)]
    /\ pc' = [pc EXCEPT !["reader"] = at]
LContinue == layer' = NIL /\ UNCHANGED <<call, pc>>
LReturn(n, k) ==
    /\ layer' = NIL /\ call' = call
    /\ pc' = [pc EXCEPT !["reader"] = "idle"]
    /\ rd' = Result(n, k, "none", NIL)

\* Lines 688-696: a RST or FIN.  The flow leaves its table and its connInfo
\* is dropped; the FIN is sent inside mutex.run.
LFrameClose(f, k) ==
    /\ IF k \in newcons \cup conns
       THEN /\ SetTables(Evict(Tables, k))
            /\ info' = [info EXCEPT ![k] = NoInfo]
            /\ mutex' = "reader"
            /\ LEnter(k, "sendFin", NoPayload, "evict")
       ELSE /\ LContinue
            /\ UNCHANGED <<newcons, conns, info, mutex>>
    /\ UNCHANGED <<tmpl, rd, seed, lastOut, sentBytes>>

\* Lines 702-735: a payload for a flow of conns.
LFrameData(f, k) ==
    LET n == f.pl.n
        a1 == AckAfterRead(tmpl[k].ack, f.seq, n)
        st == info[k].state
        dupShape == st = "httprepsent" /\ {PSH, ACK} \subseteq f.flags
                    /\ f.seq = info[k].hseqn /\ n > 20
        dup == dupShape /\ IsHTTPRequest(f)
        promoted == st = "httprepsent" /\ {PSH, ACK} \subseteq f.flags /\ ~dupShape
    IN /\ IF dup
          THEN /\ tmpl' = [tmpl EXCEPT ![k].ack = Add32(f.seq, n),
                                       ![k].seq = Add32(@, info[k].rep.n)]
               /\ LEnter(k, "write", info[k].rep, "dup")
               /\ UNCHANGED <<info, rd>>
          ELSE /\ tmpl' = [tmpl EXCEPT ![k].ack = a1]
               /\ info' = IF promoted
                          THEN [info EXCEPT ![k].rep = NoPayload, ![k].state = "established"]
                          ELSE info
               /\ IF promoted \/ st = "established"
                  THEN LReturn(n, k)
                  ELSE LContinue /\ rd' = rd
       /\ UNCHANGED <<newcons, conns, mutex, seed, lastOut, sentBytes>>

\* Lines 736-741: an empty segment for a flow of conns.
LFrameEmpty(f, k) ==
    /\ IF {ACK, PSH} \subseteq f.flags THEN LReturn(0, k) ELSE LContinue /\ rd' = rd
    /\ UNCHANGED <<tmpl, info, newcons, conns, mutex, seed, lastOut, sentBytes>>

\* Lines 742-796: a segment for a flow of newcons.
LFrameNew(f, k) ==
    LET st == info[k].state
        bareAck == ACK \in f.flags /\ f.flags \cap {PSH, FIN, SYN} = {}
        dupSyn == SYN \in f.flags /\ f.flags \cap {ACK, PSH} = {}
    IN /\ IF st = "synreceived" /\ bareAck
          THEN /\ tmpl' = [tmpl EXCEPT ![k].seq = Add32(@, 1)]
               /\ IF opts.NoHTTP
                  THEN /\ info' = [info EXCEPT ![k].state = "established"]
                       /\ SetTables(Promote(Tables, k))
                  ELSE /\ info' = [info EXCEPT ![k].state = "waithttpreq"]
                       /\ UNCHANGED <<newcons, conns>>
               /\ LContinue
          ELSE IF st = "waithttpreq" /\ {PSH, ACK} \subseteq f.flags /\ IsHTTPRequest(f)
          THEN /\ tmpl' = [tmpl EXCEPT ![k].ack = Add32(@, f.pl.n)]
               /\ info' = [info EXCEPT ![k].rep = buildHTTPResponse, ![k].hseqn = f.seq]
               /\ LEnter(k, "write", buildHTTPResponse, "rep")
               /\ UNCHANGED <<newcons, conns>>
          ELSE IF st \in {"synreceived", "waithttpreq"} /\ dupSyn
                  /\ ~(st = "waithttpreq" /\ {PSH, ACK} \subseteq f.flags /\ f.pl.n > 20)
          THEN /\ LEnter(k, "sendSynAck", NoPayload, "synack")
               /\ UNCHANGED <<tmpl, info, newcons, conns>>
          ELSE /\ LContinue
               /\ UNCHANGED <<tmpl, info, newcons, conns>>
       /\ UNCHANGED <<mutex, rd, seed, lastOut, sentBytes>>

\* The values src.Int63() gives a flow of the listener (lines 800-801, 826).
ListenSeeds == {ConnSeed}

\* Lines 797-841: a segment of a peer without a flow.
LFrameUnknown(f, k) ==
    /\ \E r \in ListenSeeds :
         IF SYN \in f.flags /\ f.flags \cap {ACK, PSH, FIN} = {}
         THEN /\ tmpl' = [tmpl EXCEPT ![k] = [seq |-> r.seq, ack |-> Add32(f.seq, 1), id |-> r.id,
                                              flags |-> {}, pl |-> NoPayload]]
              /\ info' = [info EXCEPT ![k] = [state |-> "synreceived", rep |-> NoPayload,
                                              hseqn |-> Zero32,
                                              mss |-> getMssFromTcpLayer(f.options)]]
              /\ seed' = [seed EXCEPT ![k] = r.seq]
              /\ lastOut' = [lastOut EXCEPT ![k] = NoSeg]
              /\ sentBytes' = [sentBytes EXCEPT ![k] = 0]
              /\ LEnter(k, "sendSynAck", NoPayload, "new")
         ELSE /\ tmpl' = [tmpl EXCEPT ![EPH] = [seq |-> Zero32, ack |-> Add32(f.seq, 1),
                                                id |-> r.id, flags |-> {}, pl |-> NoPayload]]
              /\ lastOut' = [lastOut EXCEPT ![EPH] = NoSeg]
              /\ sentBytes' = [sentBytes EXCEPT ![EPH] = 0]
              /\ LEnter(EPH, "sendFin", NoPayload, "ephfin")
              /\ UNCHANGED <<info, seed>>
    /\ UNCHANGED <<newcons, conns, mutex, rd>>

\* Lines 674-687: one frame from readLayers; listener.layer is reset, then the
\* frame is classified by its source address.
LReadFromFrame ==
    /\ ~crashed /\ role = "listen" /\ pc["reader"] = "wait"
    /\ handle = "open" /\ frames < MaxListenFrames /\ mutex = NIL
    /\ \E k \in Peers : \E f \in ListenFramesOf(k) :
         /\ frames' = frames + 1
         /\ lastIn' = IF k \notin newcons \cup conns THEN NoIn
                       ELSE [src |-> k, flags |-> f.flags, n |-> f.pl.n,
                             post |-> (f.pl.head = "POST" /\ f.pl.tail = CRLF2),
                             dup |-> (f.seq = info[k].hseqn), skipped |-> Skipped(f)]
         /\ IF Skipped(f)
            THEN UNCHANGED <<tmpl, layer, pc, call, cl, newcons, conns, info, mutex, rd, seed,
                             lastOut, sentBytes>>
            ELSE /\ cl' = k
                 /\ IF f.flags \cap {RST, FIN} # {} THEN LFrameClose(f, k)
                    ELSE IF k \in conns /\ f.pl.n # 0 THEN LFrameData(f, k)
                    ELSE IF k \in conns THEN LFrameEmpty(f, k)
                    ELSE IF k \in newcons THEN LFrameNew(f, k)
                    ELSE LFrameUnknown(f, k)
    /\ UNCHANGED <<rtimer, lock, handle, winfo, wr, crashed, sent, nfail, writes>>
    /\ ListenFixed

\* The send helper returned to RAWListener.ReadFrom.
LReadFromSent ==
    /\ ~crashed /\ role = "listen" /\ call["reader"].stage = "done"
    /\ LET at == pc["reader"]
           err == call["reader"].err
           k == cl
       IN /\ (at \in {"rep", "new"} /\ ~err) => mutex = NIL
          /\ tmpl' = AfterHelper("reader")
          /\ call' = [call EXCEPT !["reader"] = NoCall]
          /\ mutex' = IF at = "evict" THEN NIL ELSE mutex
          /\ IF err /\ at # "ephfin"
             THEN /\ rd' = Result(0, k, "send", NIL)
                  /\ pc' = [pc EXCEPT !["reader"] = "idle"]
                  /\ info' = IF at = "new" THEN [info EXCEPT ![k] = NoInfo] ELSE info
                  /\ UNCHANGED <<newcons, conns>>
             ELSE /\ rd' = rd
                  /\ pc' = [pc EXCEPT !["reader"] = "wait"]
                  /\ IF at = "rep"
                     THEN /\ info' = [info EXCEPT ![k].state = "httprepsent"]
                          /\ SetTables(Promote(Tables, k))
                     ELSE IF at = "new"
                     THEN /\ newcons' = newcons \cup {k}
                          /\ UNCHANGED <<info, conns>>
                     ELSE UNCHANGED <<info, newcons, conns>>
    /\ UNCHANGED <<layer, rtimer, lock, handle, cl, winfo, wr, crashed, seed, frames, writes>>
    /\ QuietL /\ ListenTail

\* RAWListener.WriteTo, lines 846-851: the flow is looked up in conns alone.
WriteToLookupBug(tables, a) == a \in tables.conns \cup tables.newcons
WriteToLookup(tables, a) == a \in tables.conns
WriteTo ==
    /\ ~crashed /\ role = "listen" /\ pc["writer"] = "idle"
    /\ mutex = NIL
    /\ \E a \in Peers, b \in WriteData :
         IF WriteToLookup(Tables, a)
         THEN /\ writes < MaxWrites
              /\ writes' = writes + 1
              /\ winfo' = [key |-> a, b |-> b]
              /\ pc' = [pc EXCEPT !["writer"] = "setlayer"]
              /\ wr' = wr
         ELSE /\ wr' = Result(0, NIL, "cannot write to", a)
              /\ UNCHANGED <<writes, winfo, pc>>
    /\ UNCHANGED <<tmpl, layer, rtimer, lock, handle, call, cl, newcons, conns, info,
                   mutex, rd, crashed, seed, frames>>
    /\ QuietL /\ ListenTail

\* Line 852: listener.layer = info.layer; then listener.Write(b).
WriteToSetLayer ==
    /\ ~crashed /\ role = "listen" /\ pc["writer"] = "setlayer"
    /\ layer' = winfo.key
    /\ pc' = [pc EXCEPT !["writer"] = "lock"]
    /\ UNCHANGED <<tmpl, rtimer, lock, handle, call, cl, newcons, conns, info, winfo,
                   mutex, rd, wr, crashed, seed, frames, writes>>
    /\ QuietL /\ ListenTail

\* RAWListener.Close, lines 594-607, as one step: under the table mutex a FIN
\* for every flow of newcons, then of conns (closeConn: listener.layer =
\* info.layer; the maps are ranged over in any order); then conn.close(): udp
\* is nil, so no FIN of the listener's own, and the handle is closed.
LClose ==
    /\ ~crashed /\ role = "listen" /\ pc["closer"] = "idle"
    /\ mutex = NIL
    /\ LET flows == newcons \cup conns
           fin(k) == incId(setFlags(updateTCP(tmpl[k]), "sendFin", NoPayload))
       IN /\ \E oks \in [flows -> InjectOutcomes] :
               /\ lastOut' = [k \in TmplIds |-> IF k \in flows /\ oks[k]
                                                THEN Serialize(fin(k), "sendFin")
                                                ELSE lastOut[k]]
               /\ nfail' = IF handle = "open"
                           THEN nfail + Cardinality({k \in flows : ~oks[k]})
                           ELSE nfail
          /\ tmpl' = [k \in TmplIds |-> IF k \in flows THEN fin(k) ELSE tmpl[k]]
          /\ layer' \in (IF conns # {} THEN conns ELSE IF newcons # {} THEN newcons ELSE {layer})
    /\ handle' = "closed"
    /\ pc' = [pc EXCEPT !["closer"] = "closed"]
    /\ UNCHANGED <<rtimer, lock, call, cl, newcons, conns, info, winfo, mutex,
                   rd, wr, crashed, seed, frames, writes, sentBytes, sent>>
    /\ ListenTail

ListenNext ==
    \/ SetReadDeadline \/ LReadFromCall \/ LReadFromTimeout \/ LReadFromClosed
    \/ LReadFromFrame \/ LReadFromSent
    \/ WriteTo \/ WriteToSetLayer \/ WriteLock \/ WriteReturn
    \/ LClose
    \/ HelperStep

SpecListen == InitListen /\ [][ListenNext]_vars

\* A listener that has taken one peer through its handshake.  The peer's SYN
\* had seq FlowSynSeq; the listener drew ConnSeed, sent one SYN/ACK and got
\* the bare ACK: with NoHTTP the flow is established; without, it waits for
\* the decoy request, or has got it (FlowRequest at FlowSynSeq + 1) and sent
\* the decoy response once.  The reads have one frame of their budget left.
FlowPeer == "p1"
FlowSynSeq == <<0, 499>>
FlowRequest == Post(21)
FlowStates == {"synreceived", "waithttpreq", "httprepsent", "established"}
InitFlow ==
    /\ role = "listen"
    /\ InitOwner
    /\ frames = MaxListenFrames - 1
    /\ hseqn = Zero32 /\ mss = 0 /\ packn = Zero32 /\ hs = "none"
    /\ sent = [h \in Helpers |-> 0]
    /\ seed = [k \in TmplIds |-> IF k = FlowPeer THEN ConnSeed.seq ELSE Zero32]
    /\ \E st \in FlowStates :
         LET t0 == [seq |-> ConnSeed.seq, ack |-> Add32(FlowSynSeq, 1), id |-> ConnSeed.id,
                    flags |-> {}, pl |-> NoPayload]
             t1 == incId(setFlags(updateTCP(t0), "sendSynAck", NoPayload))
             t2 == [t1 EXCEPT !.seq = Add32(@, 1)]
             t3 == [t2 EXCEPT !.ack = Add32(@, FlowRequest.n)]
             t4 == incId(setFlags(updateTCP(t3), "write", buildHTTPResponse))
             t == CASE st = "synreceived" -> t1
                    [] st = "httprepsent" -> deferred(t4, "write")
                    [] OTHER -> t2
             out == IF st = "httprepsent" THEN Serialize(t4, "write")
                    ELSE Serialize(t1, "sendSynAck")
         IN /\ (st = "established") = opts.NoHTTP \/ st = "synreceived"
            /\ tmpl = [k \in TmplIds |-> IF k = FlowPeer THEN t ELSE NoTmpl]
            /\ lastOut = [k \in TmplIds |-> IF k = FlowPeer THEN out ELSE NoSeg]
            /\ sentBytes = [k \in TmplIds |-> IF k = FlowPeer THEN out.n ELSE 0]
            /\ info = [k \in Peers |->
                         IF k # FlowPeer THEN NoInfo
                         ELSE [state |-> st,
                               rep |-> IF st = "httprepsent" THEN buildHTTPResponse
                                       ELSE NoPayload,
                               hseqn |-> IF st = "httprepsent" THEN Add32(FlowSynSeq, 1)
                                         ELSE Zero32,
                               mss |-> getMssFromTcpLayer(PeerOptions)]]
            /\ newcons = IF st \in {"synreceived", "waithttpreq"} THEN {FlowPeer} ELSE {}
            /\ conns = IF st \in {"httprepsent", "established"} THEN {FlowPeer} ELSE {}
            /\ layer = IF st \in {"synreceived", "httprepsent"} THEN FlowPeer ELSE NIL
    /\ pc = [p \in Procs |-> IF p \in {"reader", "writer", "closer"} THEN "idle" ELSE "off"]

SpecFlow == InitFlow /\ [][ListenNext]_vars

\* ================================================================ claims
\* C1 (flag discipline): every segment on the wire carries exactly the flags
\* of the send helper that produced it, and a payload only when that helper
\* is write, under any interleaving of reader, writer and ack pacer (Close
\* not yet called).
C1_FlagDiscipline ==
    \A k \in TmplIds :
        (lastOut[k].h # "none" /\ pc["closer"] = "idle") =>
            /\ lastOut[k].flags = HelperFlags(lastOut[k].h)
            /\ lastOut[k].n > 0 => lastOut[k].h = "write"

\* C2 (ack monotonicity): from one emitted segment of a template to the
\* next, the ack field never decreases.
C2_AckMonotone ==
    [][\A k \in TmplIds :
           (lastOut[k].h # "none" /\ lastOut'[k].h # "none")
               => ~Less32(lastOut'[k].ack, lastOut[k].ack)]_vars

\* C3 (seq accounting): while no Write is in progress, the template's seq
\* is its seed plus 1 for the SYN plus the payload bytes of the PSH+ACK
\* segments this side emitted (the one decoy request among them), modulo 2^32.
C3_SeqAccounting ==
    (role = "dial" /\ pc["writer"] = "idle" /\ call["reader"] = NoCall)
        => tmpl[DialPeer].seq = Add32(seed[DialPeer], 1 + sentBytes[DialPeer])

\* C4 (IPv4 ID progression): two consecutive segments emitted from one
\* template have IDs that differ by 1 modulo 2^16, also when a send attempt
\* between them failed.
C4_IdProgression ==
    [][\A k \in TmplIds :
           (lastOut[k].h # "none" /\ lastOut'[k].h # "none" /\ lastOut'[k] # lastOut[k])
               => lastOut'[k].id = (lastOut[k].id + 1) % U16]_vars

\* C5 (duplicate filtering): when ReadFrom of an established dial connection
\* takes a PSH+ACK frame whose seq is hseqn, nothing is delivered, the
\* template is as it was and the read goes on waiting.
C5_DuplicateFiltered ==
    [][(frames' = frames + 1 /\ dupIn')
           => (rd' = rd /\ tmpl' = tmpl /\ pc'["reader"] = "wait")]_vars
C5_Witness ==
    /\ dupIn /\ pc["reader"] = "wait" /\ frames > 0
    /\ ~opts.NoHTTP /\ hseqn = ConnPeerSeq

\* C6 (handshake retry bound): DialRAW emits at most 6 SYNs and at most 6
\* copies of the decoy request; it never starts a seventh attempt; a phase
\* whose 6 attempts are spent ends in 'retry too many times', and with that
\* error the handle is closed and the ack pacer is not started.
C6_RetryBound ==
    /\ sent["sendSyn"] <= 6 /\ sent["write"] <= 6 /\ retry <= 6
    /\ (pc["dialer"] \in {"syn_top", "req_top"} /\ retry = 6) => ~ENABLED (DialSendSyn \/ DialSendReq)
    /\ dialErr = "retry too many times" =>
           /\ retry = 6 /\ pc["dialer"] \in {"defers", "failed"}
           /\ pc["pacer"] = "off"
           /\ pc["dialer"] = "failed" => handle = "closed"
C6_Witness ==
    /\ pc["dialer"] = "failed" /\ dialErr = "retry too many times"
    /\ sent["write"] = 6 /\ handle = "closed"

\* C7 (dial handshake completion): whenever DialRAW returns without error,
\* the wire has shown its SYN, then the peer's SYN/ACK, then its ACK.
C7_HandshakeCompletion ==
    pc["dialer"] = "returned" => hs = "ack"

\* C8 (WriteTo to an unknown peer): a WriteTo whose addr is not in conns
\* (no flow, or a flow still in newcons) returns 0 and 'cannot write to
\* <addr>', emits nothing and leaves every template and both tables as they
\* were; only a WriteTo whose addr is in conns goes on to Write.
C8_WriteToUnknown ==
    [][/\ (wr' # wr /\ wr'.err = "cannot write to")
           => /\ wr'.n = 0 /\ wr'.op \notin conns
              /\ UNCHANGED <<tmpl, layer, lastOut, sentBytes, newcons, conns, info>>
       /\ (pc["writer"] = "idle" /\ pc'["writer"] = "setlayer")
           => (winfo'.key \in conns /\ wr' = wr)]_vars
C8_Witness ==
    /\ role = "listen" /\ wr.err = "cannot write to" /\ wr.n = 0
    /\ wr.op \in newcons /\ pc["writer"] = "idle"

\* C9 (read timeout): while a read of the listener waits with an armed
\* deadline and no send helper is running, no step panics: the expiry of the
\* deadline returns the timeout error, whatever listener.layer is.
C9_ReadTimeout ==
    [][(/\ role = "listen" /\ pc["reader"] = "wait" /\ rtimer = "armed"
        /\ \A p \in Procs : call[p] = NoCall)
           => ~crashed']_vars

\* C10 (listener table exclusivity): no key is in both newcons and conns;
\* every flow that has a connInfo is in exactly one of them, but for the
\* connInfo ReadFrom is still building; and a key enters conns in the very
\* step in which it leaves newcons.
C10_TablesExclusive ==
    /\ newcons \cap conns = {}
    /\ \A k \in Peers :
           /\ k \in newcons \cup conns => info[k].state # "none"
           /\ (info[k].state # "none" /\ ~(pc["reader"] = "new" /\ cl = k))
                  => k \in newcons \cup conns
C10_PromotionAtomic ==
    \A k \in Peers : (k \notin conns /\ k \in conns') => (k \in newcons /\ k \notin newcons')
C10_TableExclusivity == []C10_TablesExclusive /\ [][C10_PromotionAtomic]_vars
C10_Witness ==
    /\ role = "listen" /\ newcons = {}
    /\ \E k \in conns : info[k].state = "established"

\* C11 (RST/FIN eviction and IgnoreReset): a captured RST or FIN from a peer
\* that has a flow takes the flow out of both tables and sends one FIN from
\* that flow's template (no WriteTo having run beside it); with IgnRST a
\* captured RST changes nothing and nothing is emitted.
C11_Evicts ==
    (/\ frames' = frames + 1 /\ lastIn'.src # NIL /\ ~lastIn'.skipped
     /\ lastIn'.flags \cap {RST, FIN} # {})
        => /\ lastIn'.src \notin newcons' \cup conns'
           /\ info'[lastIn'.src].state = "none"
           /\ layer' = lastIn'.src /\ call'["reader"].h = "sendFin"
C11_Ignores ==
    (frames' = frames + 1 /\ opts.IgnRST /\ RST \in lastIn'.flags)
        => /\ lastIn'.skipped
           /\ UNCHANGED <<newcons, conns, info, tmpl, layer, lastOut, sentBytes, pc, call, rd>>
C11_SendsFin ==
    (/\ pc["reader"] = "evict" /\ call["reader"].stage = "send"
     /\ call'["reader"].stage = "done" /\ writes = 0)
        => /\ lastOut'[cl] # lastOut[cl]
           /\ lastOut'[cl].h = "sendFin" /\ lastOut'[cl].flags = {FIN} /\ lastOut'[cl].n = 0
           /\ lastOut'[cl].seq = tmpl[cl].seq /\ lastOut'[cl].ack = tmpl[cl].ack
           /\ \A k \in TmplIds \ {cl} : lastOut'[k] = lastOut[k]
C12_WireOrder ==
    [][\A k \in Peers :
          (/\ role = "listen" /\ opts.NoHTTP /\ info[k].state = "established"
           /\ rd.addr = k /\ rd.n > 0 /\ rd.err = "none"
           /\ lastOut'[k] # lastOut[k] /\ lastOut'[k].h = "write")
              => (lastOut[k].h = "sendAck" /\ lastOut[k].flags = {ACK})]_vars

\* C13 (past deadlines): a Write that starts after SetWriteDeadline or
\* SetDeadline with a past time emits no segment and returns the timeout
\* error with n = 0.
C13_PastWriteDeadline ==
    [][(wtimer = "past" /\ pc["writer"] # "idle")
          => /\ (call["writer"].stage = "send" /\ call'["writer"].stage = "done")
                    => (lastOut' = lastOut /\ sentBytes' = sentBytes)
             /\ pc'["writer"] = "idle" => (wr'.err = "timeout" /\ wr'.n = 0)]_vars

\* C14 (listener decoy request acceptance): for a flow in WAIT_HTTP_REQ, a
\* captured PSH+ACK whose payload has at least 20 bytes, starts with POST and
\* ends with CR LF CR LF advances ack by the payload and starts the write of
\* the decoy response on the flow's template.
C14_RequestAccepted ==
    [][\A k \in Peers :
          (/\ frames' = frames + 1 /\ lastIn'.src = k /\ ~lastIn'.skipped
           /\ info[k].state = "waithttpreq"
           /\ {PSH, ACK} \subseteq lastIn'.flags /\ lastIn'.flags \cap {RST, FIN} = {}
           /\ lastIn'.n >= 20 /\ lastIn'.post)
              => /\ tmpl'[k].ack = Add32(tmpl[k].ack, lastIn'.n)
                 /\ layer' = k /\ pc'["reader"] = "rep"
                 /\ call'["reader"].h = "write" /\ call'["reader"].b = buildHTTPResponse]_vars

\* C15 (promotion out of HTTP_REP_SENT): for a flow in HTTP_REP_SENT, a
\* captured PSH+ACK that is not a retransmission of the decoy request (seq =
\* hseqn with the POST shape), an empty one included, clears the cached
\* response, makes the flow ESTABLISHED and is delivered by the same read.
C15_Promotion ==
    [][\A k \in Peers :
          (/\ frames' = frames + 1 /\ lastIn'.src = k /\ ~lastIn'.skipped
           /\ info[k].state = "httprepsent"
           /\ {PSH, ACK} \subseteq lastIn'.flags /\ lastIn'.flags \cap {RST, FIN} = {}
           /\ ~(lastIn'.dup /\ lastIn'.post))
              => /\ info'[k].state = "established" /\ info'[k].rep = NoPayload
                 /\ pc'["reader"] = "idle"
                 /\ rd' = Result(lastIn'.n, k, "none", NIL)]_vars

\* C16 (send under mutex): on a dial connection, a task (reader, writer, ack
\* pacer, Close) that is inside a send helper holds conn.lock.
C16_SendUnderMutex ==
    \A p \in Procs :
        (role = "dial" /\ call[p].stage \in {"upd", "set", "send"}) => lock = p

\* C17 (ack pacer liveness): on a dial connection that is never closed (its
\* injections do not fail), whenever the template's ack is ahead of the value
\* the pacer emitted last, the pacer eventually emits a bare ACK carrying an
\* ack at least that large.
PacerAcks == {AckAfterRead(a, a, PacerData.n) : a \in {Add32(ConnPeerSeq, 1), Add32(ConnPeerSeq, 20)}}
C17_PacerLiveness ==
    \A a \in PacerAcks :
        [](pc["closer"] = "idle" /\ ~Less32(tmpl[DialPeer].ack, a))
            => (tmpl[DialPeer].ack = a /\ packn # a)
                   ~> (/\ packOut.flags = {ACK} /\ packOut.n = 0
                       /\ ~Less32(packOut.ack, a))

\* C19 (no loss on the dial reader): on a connection dialed with NoHTTP no
\* captured PSH+ACK segment is filtered: the read that captures one whose seq
\* equals hseqn (seq = 0) returns it.
C19_NoLoss ==
    [][(/\ role = "dial" /\ opts.NoHTTP /\ pc["reader"] = "wait"
        /\ frames' = frames + 1 /\ dupIn')
           => (pc'["reader"] = "idle" /\ rd'.err = "none" /\ rd'.addr = DialPeer)]_vars

\* C18 (fixed flow addressing): no operation on a dial connection changes the
\* destination address and port of its send template: they stay those of the
\* peer it dialed.
C18_FixedAddressing ==
    [](role = "dial" => dstAddr = DialPeer) /\ [][dstAddr' = dstAddr]_vars

\* C20 (WriteTo routing under concurrency): while RAWListener.WriteTo(b, A)
\* is between its lookup and its return and no read deadline is armed, no
\* step finds listener.layer unset; the segment of its write is serialised
\* from the template of the flow keyed by A; and at its return only that
\* flow's seq has advanced.
C20_WriteToRouting ==
    [][(role = "listen" /\ ~crashed /\ rtimer # "armed"
        /\ pc["writer"] \in {"setlayer", "lock", "writing"})
           => /\ ~crashed'
              /\ (call["writer"].stage = "send" /\ call'["writer"].stage = "done")
                     => call'["writer"].lyr = winfo.key
              /\ pc'["writer"] = "idle"
                     => /\ tmpl'[winfo.key].seq = Add32(tmpl[winfo.key].seq, winfo.b.n)
                        /\ \A k \in TmplIds \ {winfo.key} : tmpl'[k].seq = tmpl[k].seq]_vars

\* C21 (ack pacer termination): once Close has been called on a dial
\* connection, its ack pacer eventually leaves its loop, whether or not Ack
\* changes after the close.
C21_PacerExits ==
    (role = "dial" /\ pc["closer"] = "closed") ~> (pc["pacer"] = "exited")
====
